---- MODULE Spec2Model ----
(***************************************************************************)
(* Model of package shortuuid (src/shortuuid.go): the base-62 codec        *)
(* Shorten / Expand / ShortenUUID / ExpandUUID.                            *)
(*                                                                         *)
(* A Go string is the sequence of its bytes (0..255).  A *big.Int is its   *)
(* magnitude, a math/big nat: a little-endian sequence of words with no    *)
(* high zero word (the values here are never negative).  A uuid.UUID is a  *)
(* sequence of 16 bytes.  An error is a record; NoError is Go's nil.       *)
(***************************************************************************)
EXTENDS Integers, Sequences, FiniteSets, TLC

VARIABLES
    defaultBase62,  \* the package-level alphabet, a Go `var` (a string of 62 runes)
    call,           \* the call that returned last: [op, arg, ret, err]
    prev,           \* the call whose result was passed to `call`, or NoCall
    running         \* the calls in progress in concurrent goroutines: for each
                    \* goroutine its position in the code and its local variables

vars == <<defaultBase62, call, prev, running>>

----------------------------------------------------------------------------
(* Bounds of the model.                                                    *)

\* longest string drawn from InputBytes and given to Shorten
MaxLen == 3
\* longest short ID drawn from ShortIDBytes and given to Expand / ExpandUUID
MaxShortLen == 2
\* bytes in one word of a nat (math/big has 4 or 8; TLC's integers have 32 bits)
WordBytes == 2
\* goroutines calling the package at the same time
NumCalls == 2

----------------------------------------------------------------------------
(* Go string literals.                                                     *)

\* the printable ASCII characters in code order: 32 (space) to 95, and 97 to 126
AsciiLow == " !\"#$%&'()*+,-./0123456789:;<=>?@ABCDEFGHIJKLMNOPQRSTUVWXYZ[\\]^_"
AsciiHigh == "abcdefghijklmnopqrstuvwxyz{|}~"

\* the code of the character c, a string of length one
CharCode(c) ==
    IF \E k \in 1..Len(AsciiLow) : SubSeq(AsciiLow, k, k) = c
    THEN 31 + (CHOOSE k \in 1..Len(AsciiLow) : SubSeq(AsciiLow, k, k) = c)
    ELSE 96 + (CHOOSE k \in 1..Len(AsciiHigh) : SubSeq(AsciiHigh, k, k) = c)

\* the bytes of the Go string literal s
Str(s) == [i \in 1..Len(s) |-> CharCode(SubSeq(s, i, i))]

\* the character of code c as a string of length one ("" when it is not printable)
CharOf(c) ==
    IF c >= 32 /\ c <= 95 THEN SubSeq(AsciiLow, c - 31, c - 31)
    ELSE IF c >= 97 /\ c <= 126 THEN SubSeq(AsciiHigh, c - 96, c - 96)
    ELSE ""

RECURSIVE Decimal(_)
\* fmt's %d of a non-negative int
Decimal(n) == IF n < 10 THEN <<48 + n>> ELSE Decimal(n \div 10) \o <<48 + (n % 10)>>

----------------------------------------------------------------------------
(* Loops.                                                                  *)

RECURSIVE Loop(_, _, _, _)
\* `for Cond(st) { st = Body(st) }` from the variables st, for at most iters
\* iterations; it is run in two halves, which keeps TLC's evaluation shallow
Loop(Body(_), Cond(_), st, iters) ==
    IF iters = 0 \/ ~Cond(st) THEN st
    ELSE IF iters = 1 THEN Body(st)
    ELSE Loop(Body, Cond, Loop(Body, Cond, st, iters \div 2), iters - (iters \div 2))

----------------------------------------------------------------------------
(* Messages and errors.  A message is kept as fmt.Sprintf's format and its *)
(* arguments, each argument already formatted by its verb; Render gives    *)
(* the bytes of the message.                                               *)

\* fmt.Sprintf(format, args...), and a string literal when args is empty
Sprintf(format, args) == [fmt |-> format, args |-> args]

\* the concatenation a + b of two messages
Concat(a, b) == [fmt |-> a.fmt \o b.fmt, args |-> a.args \o b.args]

\* the loop over the format: a verb (% and a letter) takes the next argument
renderCond(st) == st.i <= Len(st.fmt)
renderBody(st) ==
    IF SubSeq(st.fmt, st.i, st.i) = "%"
    THEN [st EXCEPT !.i = st.i + 2, !.args = Tail(st.args), !.out = st.out \o Head(st.args)]
    ELSE [st EXCEPT !.i = st.i + 1,
                    !.out = Append(st.out, CharCode(SubSeq(st.fmt, st.i, st.i)))]

\* the string a message stands for
Render(text) ==
    Loop(renderBody, renderCond,
         [fmt |-> text.fmt, i |-> 1, args |-> text.args, out |-> <<>>],
         Len(text.fmt)).out

NoError == [kind |-> "nil", input |-> <<>>, Reason |-> Sprintf("", <<>>)]

\* &EncodeError{UUID: input, Reason: reason}
EncodeError(input, reason) == [kind |-> "EncodeError", input |-> input, Reason |-> reason]

\* &DecodeError{ShortID: shortID, Reason: reason}
DecodeError(shortID, reason) == [kind |-> "DecodeError", input |-> shortID, Reason |-> reason]

\* (*EncodeError).Error and (*DecodeError).Error
ErrorString(e) ==
    IF e.kind = "EncodeError"
    THEN Concat(Sprintf("encode error for UUID '%s': ", <<e.input>>), e.Reason)
    ELSE Concat(Sprintf("decode error for short ID '%s': ", <<e.input>>), e.Reason)

----------------------------------------------------------------------------
(* math/big: the operations the package calls, on nats.                    *)

\* the word base, 256^WordBytes
WordBase == IF WordBytes = 1 THEN 256 ELSE IF WordBytes = 2 THEN 65536 ELSE 16777216

\* nat.norm: drop the high zero words
norm(z) ==
    LET used == {i \in 1..Len(z) : z[i] # 0}
    IN  IF used = {} THEN <<>>
        ELSE SubSeq(z, 1, CHOOSE i \in used : \A j \in used : j <= i)

\* 256^e for the byte offsets within a word
byteWeight(e) == IF e = 0 THEN 1 ELSE IF e = 1 THEN 256 ELSE IF e = 2 THEN 65536 ELSE 16777216

\* the word of bytes buf[lo..hi], big-endian (at most WordBytes of them)
bigEndianWord(buf, lo, hi) ==
    IF lo > hi THEN 0
    ELSE IF lo = hi THEN buf[hi]
    ELSE IF lo + 1 = hi THEN buf[hi] + 256 * buf[lo]
    ELSE buf[hi] + 256 * buf[hi - 1] + 65536 * buf[lo]

\* nat.setBytes: word i holds the i-th group of WordBytes bytes from the end
setBytesWords(buf) ==
    LET n == Len(buf)
        words == (n + WordBytes - 1) \div WordBytes
    IN  [i \in 1..words |->
            bigEndianWord(buf,
                          IF n - i * WordBytes + 1 < 1 THEN 1 ELSE n - i * WordBytes + 1,
                          n - (i - 1) * WordBytes)]

\* (*big.Int).SetBytes: buf read as a big-endian unsigned integer
SetBytes(buf) == norm(setBytesWords(buf))

\* nat.bytes: byte j of the big-endian bytes of all the words of z
allWordBytes(z) ==
    [j \in 1..(WordBytes * Len(z)) |->
        LET fromEnd == WordBytes * Len(z) - j
        IN  (z[(fromEnd \div WordBytes) + 1] \div byteWeight(fromEnd % WordBytes)) % 256]

\* drop the leading zero bytes
stripLeadingZeros(buf) ==
    LET used == {i \in 1..Len(buf) : buf[i] # 0}
    IN  IF used = {} THEN <<>>
        ELSE SubSeq(buf, CHOOSE i \in used : \A j \in used : i <= j, Len(buf))

\* Bytes returning the bytes of all the words, leading zero bytes included
BytesOfWholeWords(num) == allWordBytes(num)

\* (*big.Int).Bytes: the big-endian bytes of the magnitude, no leading zero byte
Bytes(num) == stripLeadingZeros(allWordBytes(num))

\* big.NewInt(x), x >= 0 and below the word base
NewInt(x) == IF x = 0 THEN <<>> ELSE <<x>>

\* (*big.Int).Sign of a non-negative value
Sign(num) == IF num = <<>> THEN 0 ELSE 1

\* (*big.Int).Cmp of non-negative values: by length, then by the highest
\* word that differs
Cmp(x, y) ==
    IF Len(x) # Len(y) THEN (IF Len(x) < Len(y) THEN -1 ELSE 1)
    ELSE LET differ == {i \in 1..Len(x) : x[i] # y[i]}
         IN  IF differ = {} THEN 0
             ELSE LET i == CHOOSE i \in differ : \A j \in differ : j <= i
                  IN  IF x[i] < y[i] THEN -1 ELSE 1

\* divWVW's loop, from the high word down: q gets the next lower word
divWVWCond(st) == st.i >= 1
divWVWBody(st) ==
    LET t == st.r * WordBase + st.x[st.i]
    IN  [x |-> st.x, y |-> st.y, i |-> st.i - 1, r |-> t % st.y,
         q |-> <<t \div st.y>> \o st.q]

\* (*big.Int).DivMod(x, y, m) for x >= 0 and a one-word y > 0:
\* the quotient and the remainder
DivMod(x, y) ==
    LET d == Loop(divWVWBody, divWVWCond,
                  [x |-> x, y |-> y[1], i |-> Len(x), r |-> 0, q |-> <<>>], Len(x))
    IN  [q |-> norm(d.q), r |-> NewInt(d.r)]

\* mulAddVWW's loop, from the low word up, c the carry
mulAddVWWCond(st) == st.i <= Len(st.x)
mulAddVWWBody(st) ==
    LET t == st.x[st.i] * st.y + st.c
    IN  [x |-> st.x, y |-> st.y, i |-> st.i + 1, c |-> t \div WordBase,
         z |-> Append(st.z, t % WordBase)]

\* (*big.Int).Mul(x, y) for x >= 0 and a one-word y
Mul(x, y) ==
    IF y = <<>> THEN <<>>
    ELSE LET m == Loop(mulAddVWWBody, mulAddVWWCond,
                       [x |-> x, y |-> y[1], i |-> 1, c |-> 0, z |-> <<>>], Len(x))
         IN  norm(IF m.c = 0 THEN m.z ELSE Append(m.z, m.c))

\* addVW's loop, from the low word up, c the carry
addVWCond(st) == st.i <= Len(st.x)
addVWBody(st) ==
    LET t == st.x[st.i] + st.c
    IN  [x |-> st.x, i |-> st.i + 1, c |-> t \div WordBase,
         z |-> Append(st.z, t % WordBase)]

\* (*big.Int).Add(x, y) for x >= 0 and a y of at most one word
Add(x, y) ==
    IF y = <<>> THEN x
    ELSE LET a == Loop(addVWBody, addVWCond,
                       [x |-> x, i |-> 1, c |-> y[1], z |-> <<>>], Len(x))
         IN  norm(IF a.c = 0 THEN a.z ELSE Append(a.z, a.c))

\* (*big.Int).Int64 of a value below the word base
Int64(num) == IF num = <<>> THEN 0 ELSE num[1]

----------------------------------------------------------------------------
(* github.com/google/uuid: UUID.String and Parse, as ShortenUUID and       *)
(* ExpandUUID call them.                                                   *)

\* the lower-case hex digit of a nibble
hexDigit(n) == IF n < 10 THEN 48 + n ELSE 87 + n

\* encoding/hex.Encode: two lower-case hex digits per byte
hexEncode(src) ==
    [j \in 1..(2 * Len(src)) |->
        IF j % 2 = 1 THEN hexDigit(src[(j + 1) \div 2] \div 16)
        ELSE hexDigit(src[j \div 2] % 16)]

\* UUID.String: xxxxxxxx-xxxx-xxxx-xxxx-xxxxxxxxxxxx
UUIDString(u) ==
    hexEncode(SubSeq(u, 1, 4)) \o <<45>> \o hexEncode(SubSeq(u, 5, 6)) \o <<45>>
        \o hexEncode(SubSeq(u, 7, 8)) \o <<45>> \o hexEncode(SubSeq(u, 9, 10)) \o <<45>>
        \o hexEncode(SubSeq(u, 11, 16))

\* the zero value uuid.UUID{}
NilUUID == [i \in 1..16 |-> 0]

\* xvalues: the value of a hex digit of either case, 255 for any other byte
xvalue(c) ==
    IF c >= 48 /\ c <= 57 THEN c - 48
    ELSE IF c >= 65 /\ c <= 70 THEN c - 55
    ELSE IF c >= 97 /\ c <= 102 THEN c - 87
    ELSE 255

\* xtob's ok: both bytes are hex digits
xtobOk(x1, x2) == xvalue(x1) # 255 /\ xvalue(x2) # 255

\* xtob's byte
xtob(x1, x2) == xvalue(x1) * 16 + xvalue(x2)

\* strings.EqualFold on ASCII
lowerByte(c) == IF c >= 65 /\ c <= 90 THEN c + 32 ELSE c
EqualFold(s, t) ==
    Len(s) = Len(t) /\ \A i \in 1..Len(s) : lowerByte(s[i]) = lowerByte(t[i])

UrnPrefix == Str("urn:uuid:")
\* errors.New("invalid UUID format")
ParseErrFormat == Sprintf("invalid UUID format", <<>>)

\* the offsets in the hyphenated form of the 16 bytes' first hex digits
hyphenatedOffsets == <<1, 3, 5, 7, 10, 12, 15, 17, 20, 22, 25, 27, 29, 31, 33, 35>>

\* Parse's tail: s holds xxxxxxxx-xxxx-xxxx-xxxx-xxxxxxxxxxxx in its first 36 bytes
parseHyphenated(s) ==
    IF s[9] # 45 \/ s[14] # 45 \/ s[19] # 45 \/ s[24] # 45
    THEN [val |-> NilUUID, ok |-> FALSE, err |-> ParseErrFormat]
    ELSE IF \E i \in 1..16 : ~xtobOk(s[hyphenatedOffsets[i]], s[hyphenatedOffsets[i] + 1])
    THEN [val |-> NilUUID, ok |-> FALSE, err |-> ParseErrFormat]
    ELSE [val |-> [i \in 1..16 |->
                      xtob(s[hyphenatedOffsets[i]], s[hyphenatedOffsets[i] + 1])],
          ok |-> TRUE, err |-> Sprintf("", <<>>)]

\* uuid.Parse: the UUID, whether the error is nil, and the error's message.
\* On a failure the bytes decoded so far are not modelled (ExpandUUID drops the
\* value); %q is modelled for printable ASCII, which it only puts in quotes
uuidParse(s) ==
    IF Len(s) = 36 THEN parseHyphenated(s)
    ELSE IF Len(s) = 36 + 9
    THEN IF ~EqualFold(SubSeq(s, 1, 9), UrnPrefix)
         THEN [val |-> NilUUID, ok |-> FALSE,
               err |-> Sprintf("invalid urn prefix: %q",
                               <<(<<34>> \o SubSeq(s, 1, 9) \o <<34>>)>>)]
         ELSE parseHyphenated(SubSeq(s, 10, Len(s)))
    ELSE IF Len(s) = 36 + 2 THEN parseHyphenated(SubSeq(s, 2, Len(s)))
    ELSE IF Len(s) = 32
    THEN IF \E i \in 1..16 : ~xtobOk(s[2 * i - 1], s[2 * i])
         THEN [val |-> NilUUID, ok |-> FALSE, err |-> ParseErrFormat]
         ELSE [val |-> [i \in 1..16 |-> xtob(s[2 * i - 1], s[2 * i])],
               ok |-> TRUE, err |-> Sprintf("", <<>>)]
    ELSE [val |-> NilUUID, ok |-> FALSE,
          err |-> Sprintf("invalid UUID length: %d", <<Decimal(Len(s))>>)]

----------------------------------------------------------------------------
(* The conversion engine.                                                  *)

\* the alphabet as the source writes it; defaultBase62 holds it as written, and
\* defaultBase62[i] of the source is alphabetRune(i)
Base62Alphabet == "0123456789ABCDEFGHIJKLMNOPQRSTUVWXYZabcdefghijklmnopqrstuvwxyz"

\* defaultBase62[i], i from 0
alphabetRune(i) == CharCode(SubSeq(defaultBase62, i + 1, i + 1))

\* big.NewInt(int64(len(defaultBase62)))
base == NewInt(Len(defaultBase62))

\* intToBaseBody with the symbol appended to result, not prepended
intToBaseBodyAppends(st) ==
    LET dm == DivMod(st.n, base)
    IN  [n |-> dm.q, result |-> Append(st.result, alphabetRune(Int64(dm.r)))]

\* intToBaseCond leaving the loop before the top digit: for n.Cmp(base) >= 0
intToBaseCondBelowBase(st) == Cmp(st.n, base) >= 0

\* the loop of intToBase, on its variables n and result
intToBaseCond(st) == Cmp(st.n, NewInt(0)) > 0
intToBaseBody(st) ==
    LET dm == DivMod(st.n, base)
    IN  [n |-> dm.q, result |-> <<alphabetRune(Int64(dm.r))>> \o st.result]

\* intToBase without the case of zero
intToBaseWithoutZeroCase(num) ==
    Loop(intToBaseBody, intToBaseCond,
         [n |-> num, result |-> <<>>], 2 * WordBytes * Len(num)).result

\* intToBase (a value of k bytes has fewer than 2k digits: the loop ends by itself)
intToBase(num) ==
    IF Sign(num) = 0 THEN <<alphabetRune(0)>>
    ELSE Loop(intToBaseBody, intToBaseCond,
              [n |-> num, result |-> <<>>], 2 * WordBytes * Len(num)).result

\* alphabetIndex comparing the characters without regard to case
alphabetIndexIgnoresCase(char) ==
    LET c == CharOf(IF char >= 97 /\ char <= 122 THEN char - 32 ELSE char)
        hits == {i \in 1..Len(defaultBase62) : SubSeq(defaultBase62, i, i) = c}
    IN  IF hits = {} THEN -1
        ELSE (CHOOSE i \in hits : \A j \in hits : i <= j) - 1

\* the inner loop of baseToInt: the first index of char in the alphabet, or -1
alphabetIndex(char) ==
    LET c == CharOf(char)
        hits == {i \in 1..Len(defaultBase62) : SubSeq(defaultBase62, i, i) = c}
    IN  IF hits = {} THEN -1
        ELSE (CHOOSE i \in hits : \A j \in hits : i <= j) - 1

\* baseToIntBody with the index added before the multiplication by the base
baseToIntBodyAddsFirst(st) ==
    LET char == st.encoded[st.k]
        index == alphabetIndex(char)
    IN  IF index = -1
        THEN [st EXCEPT !.result = <<>>,
                        !.err = DecodeError(st.encoded,
                                    Sprintf("contains invalid character '%c' not found in alphabet",
                                            <<(<<char>>)>>))]
        ELSE [st EXCEPT !.k = st.k + 1,
                        !.result = Mul(Add(st.result, NewInt(index)), base)]

\* baseToIntBody going on to the next character when the index is -1
baseToIntBodySkipsInvalid(st) ==
    LET char == st.encoded[st.k]
        index == alphabetIndex(char)
    IN  IF index = -1
        THEN [st EXCEPT !.k = st.k + 1]
        ELSE [st EXCEPT !.k = st.k + 1,
                        !.result = Add(Mul(st.result, base), NewInt(index))]

\* the outer loop of baseToInt, on the position k in encoded, result, and the
\* error it returned with (the characters are ASCII, so a rune is a byte)
baseToIntCond(st) == st.k <= Len(st.encoded) /\ st.err = NoError
baseToIntBody(st) ==
    LET char == st.encoded[st.k]
        index == alphabetIndex(char)
    IN  IF index = -1
        THEN [st EXCEPT !.result = <<>>,
                        !.err = DecodeError(st.encoded,
                                    Sprintf("contains invalid character '%c' not found in alphabet",
                                            <<(<<char>>)>>))]
        ELSE [st EXCEPT !.k = st.k + 1,
                        !.result = Add(Mul(st.result, base), NewInt(index))]

\* baseToInt
baseToInt(encoded) ==
    LET st == Loop(baseToIntBody, baseToIntCond,
                   [encoded |-> encoded, k |-> 1, result |-> NewInt(0), err |-> NoError],
                   Len(encoded))
    IN  [val |-> st.result, err |-> st.err]

----------------------------------------------------------------------------
(* The codecs.                                                             *)

\* encode without the check of the empty input
encodeWithoutEmptyCheck(input) ==
    [val |-> intToBase(SetBytes(input)), err |-> NoError]

\* encode
encode(input) ==
    IF input = <<>>
    THEN [val |-> <<>>,
          err |-> EncodeError(input, Sprintf("input string cannot be empty", <<>>))]
    ELSE [val |-> intToBase(SetBytes(input)), err |-> NoError]

\* decode
decode(shortID) ==
    LET r == baseToInt(shortID)
    IN  IF r.err # NoError THEN [val |-> <<>>, err |-> r.err]
        ELSE [val |-> Bytes(r.val), err |-> NoError]

\* Shorten
Shorten(input) == encode(input)

\* Expand
Expand(shortID) == decode(shortID)

\* ShortenUUID
ShortenUUID(u) == Shorten(UUIDString(u))

\* ExpandUUID reporting the expanded text, not its argument, in the DecodeError
ExpandUUIDReportsExpanded(shortID) ==
    LET e == Expand(shortID)
    IN  IF e.err # NoError THEN [val |-> NilUUID, err |-> e.err]
        ELSE LET p == uuidParse(e.val)
             IN  IF ~p.ok
                 THEN [val |-> NilUUID,
                       err |-> DecodeError(e.val,
                                   Concat(Sprintf("failed to parse expanded UUID: ", <<>>),
                                          p.err))]
                 ELSE [val |-> p.val, err |-> NoError]

\* ExpandUUID
ExpandUUID(shortID) ==
    LET e == Expand(shortID)
    IN  IF e.err # NoError THEN [val |-> NilUUID, err |-> e.err]
        ELSE LET p == uuidParse(e.val)
             IN  IF ~p.ok
                 THEN [val |-> NilUUID,
                       err |-> DecodeError(shortID,
                                   Concat(Sprintf("failed to parse expanded UUID: ", <<>>),
                                          p.err))]
                 ELSE [val |-> p.val, err |-> NoError]

----------------------------------------------------------------------------
(* The inputs of the calls.                                                *)

\* the bytes of the bounded strings given to Shorten: NUL, 1, '0', 'a', 0xff
InputBytes == {0, 1, 48, 97, 255}

\* the characters of the bounded short IDs: alphabet symbols and others
ShortIDBytes == {c[1] : c \in {Str("0"), Str("1"), Str("9"), Str("A"), Str("Z"),
                               Str("a"), Str("z"), Str("@"), Str("-"), Str(" ")}}

\* the strings of at most n elements of S
SeqsUpTo(S, n) == UNION {[1..k -> S] : k \in 0..n}

\* the inputs of TestErrorCases and TestError
TestStrings ==
    {Str("12345"), Str("invalid"), Str("not-a-uuid"),
     Str("12345678-1234-5678-9abc-123456789abcdef"),
     Str("gggggggg-gggg-gggg-gggg-gggggggggggg")}

\* UUIDs of TestCompatibility, TestShorten and TestBasicEncodeDecode
TestUUIDStrings ==
    {Str("4890586e-32a5-4f9c-a000-2a2bb68eb1ce"),
     Str("53a8d1b9-4eca-4888-9b59-8fa91497857b"),
     Str("08f057f3-23e0-4b2a-8703-03f2dab8f628"),
     Str("1d152c86-c436-4d47-9269-006c7469b867"),
     Str("550e8400-e29b-41d4-a716-446655440000")}

\* the first, the last and the other bytes of the UUIDs tried besides
UUIDEdgeBytes == {0, 1, 15, 16, 255}
UUIDFillBytes == {0, 90, 255}

UUIDInputs ==
    {uuidParse(s).val : s \in TestUUIDStrings}
        \cup {[i \in 1..16 |-> IF i = 1 THEN hi ELSE IF i = 16 THEN lo ELSE fill] :
                 hi \in UUIDEdgeBytes, lo \in UUIDEdgeBytes, fill \in UUIDFillBytes}

\* the other texts uuid.Parse reads as a UUID: upper-case hex digits, no
\* hyphens, braces, the urn prefix
OtherUUIDForms ==
    {Str("4890586E-32A5-4F9C-A000-2A2BB68EB1CE"),
     Str("4890586e32a54f9ca0002a2bb68eb1ce"),
     Str("{4890586e-32a5-4f9c-a000-2a2bb68eb1ce}"),
     Str("urn:uuid:4890586e-32a5-4f9c-a000-2a2bb68eb1ce")}

StringInputs ==
    SeqsUpTo(InputBytes, MaxLen) \cup TestStrings \cup {UUIDString(u) : u \in UUIDInputs}
        \cup OtherUUIDForms

\* short IDs of the tests and the README, and one of 23 symbols (above 2^128)
TestShortIDs ==
    {Str("@#$%"), Str("invalid@chars"), Str("2CvPdpytrcURpSLoPxYb30"),
     Str("zzzzzzzzzzzzzzzzzzzzzzz")}

ShortIDInputs == SeqsUpTo(ShortIDBytes, MaxShortLen) \cup TestShortIDs

----------------------------------------------------------------------------
(* The state machine: a caller calls one of the four functions on an       *)
(* input, may pass the result on to the next function (as the tests do),   *)
(* and drops it.                                                           *)

NoCall == [op |-> "none", arg |-> <<>>, ret |-> <<>>, err |-> NoError]

\* the record of a call of op on arg that returned r
Returned(op, arg, r) == [op |-> op, arg |-> arg, ret |-> r.val, err |-> r.err]

\* the goroutines
Procs == 1..NumCalls

\* a goroutine that is in no call
Idle == [op |-> "none", arg |-> <<>>, pc |-> "idle", input |-> <<>>, num |-> <<>>,
         loop |-> [k |-> 0], ret |-> <<>>, err |-> NoError]

Init ==
    /\ defaultBase62 = Base62Alphabet
    /\ call = NoCall
    /\ prev = NoCall
    /\ running = [p \in Procs |-> Idle]

CallShorten ==
    /\ call = NoCall
    /\ \E input \in StringInputs : call' = Returned("Shorten", input, Shorten(input))
    /\ UNCHANGED <<defaultBase62, prev, running>>

CallExpand ==
    /\ call = NoCall
    /\ \E shortID \in ShortIDInputs : call' = Returned("Expand", shortID, Expand(shortID))
    /\ UNCHANGED <<defaultBase62, prev, running>>

CallShortenUUID ==
    /\ call = NoCall
    /\ \E u \in UUIDInputs : call' = Returned("ShortenUUID", u, ShortenUUID(u))
    /\ UNCHANGED <<defaultBase62, prev, running>>

CallExpandUUID ==
    /\ call = NoCall
    /\ \E shortID \in ShortIDInputs :
           call' = Returned("ExpandUUID", shortID, ExpandUUID(shortID))
    /\ UNCHANGED <<defaultBase62, prev, running>>

\* short, err := Shorten(s); expanded, err := Expand(short)
ThenExpand ==
    /\ call.op \in {"Shorten", "ShortenUUID"}
    /\ call.err = NoError
    /\ call' = Returned("Expand", call.ret, Expand(call.ret))
    /\ prev' = call
    /\ UNCHANGED <<defaultBase62, running>>

\* short, err := ShortenUUID(u); expanded, err := ExpandUUID(short)
ThenExpandUUID ==
    /\ call.op \in {"Shorten", "ShortenUUID"}
    /\ call.err = NoError
    /\ call' = Returned("ExpandUUID", call.ret, ExpandUUID(call.ret))
    /\ prev' = call
    /\ UNCHANGED <<defaultBase62, running>>

\* s, err := Expand(short); again, err := Shorten(s)
ThenShorten ==
    /\ call.op = "Expand"
    /\ call.err = NoError
    /\ call' = Returned("Shorten", call.ret, Shorten(call.ret))
    /\ prev' = call
    /\ UNCHANGED <<defaultBase62, running>>

\* u, err := ExpandUUID(short); again, err := ShortenUUID(u)
ThenShortenUUID ==
    /\ call.op = "ExpandUUID"
    /\ call.err = NoError
    /\ call' = Returned("ShortenUUID", call.ret, ShortenUUID(call.ret))
    /\ prev' = call
    /\ UNCHANGED <<defaultBase62, running>>

\* the caller drops the results
Return ==
    /\ call # NoCall
    /\ call' = NoCall
    /\ prev' = NoCall
    /\ UNCHANGED <<defaultBase62, running>>

Next ==
    \/ CallShorten
    \/ CallExpand
    \/ CallShortenUUID
    \/ CallExpandUUID
    \/ ThenExpand
    \/ ThenExpandUUID
    \/ ThenShorten
    \/ ThenShortenUUID
    \/ Return

Spec == Init /\ [][Next]_vars

----------------------------------------------------------------------------
(* Concurrent calls: each goroutine runs one call at a time, and the calls *)
(* of different goroutines interleave at every iteration of the loops of   *)
(* intToBase and baseToInt, where the code reads defaultBase62.            *)

\* the arguments of the concurrent calls
ConcStrings == {<<>>, <<0>>, Str("12345")}
ConcUUIDs == {uuidParse(Str("4890586e-32a5-4f9c-a000-2a2bb68eb1ce")).val}
ConcShortIDs ==
    {<<>>, Str("0"), Str("1z"), Str("a@"), Str("3idarWH"),
     Str("w3Gvi9pRf1xYjP3A4QovOuNaGMRs1T29iJHJBa90TEsfmbAL")}

\* goroutine p enters op on arg at the position pc with the string input
Enter(p, op, arg, pc, input, loop) ==
    running' = [running EXCEPT ![p] =
                   [op |-> op, arg |-> arg, pc |-> pc, input |-> input, num |-> <<>>,
                    loop |-> loop, ret |-> <<>>, err |-> NoError]]

\* goroutine p returns ret and err
Done(p, ret, err) ==
    running' = [running EXCEPT ![p].pc = "done", ![p].ret = ret, ![p].err = err]

\* Shorten(input): return encode(input)
BeginShorten ==
    /\ \E p \in Procs, input \in ConcStrings :
           /\ running[p].pc = "idle"
           /\ Enter(p, "Shorten", input, "encode", input, [k |-> 0])
    /\ UNCHANGED <<defaultBase62, call, prev>>

\* ShortenUUID(u): return Shorten(u.String())
BeginShortenUUID ==
    /\ \E p \in Procs, u \in ConcUUIDs :
           /\ running[p].pc = "idle"
           /\ Enter(p, "ShortenUUID", u, "encode", UUIDString(u), [k |-> 0])
    /\ UNCHANGED <<defaultBase62, call, prev>>

\* encode up to the loop of intToBase
EncodeStep ==
    /\ \E p \in Procs :
           /\ running[p].pc = "encode"
           /\ LET input == running[p].input
                  num == SetBytes(input)
              IN  IF input = <<>>
                  THEN Done(p, <<>>,
                            EncodeError(input, Sprintf("input string cannot be empty", <<>>)))
                  ELSE IF Sign(num) = 0
                  THEN Done(p, <<alphabetRune(0)>>, NoError)
                  ELSE running' = [running EXCEPT ![p].pc = "intToBase",
                                                  ![p].num = num,
                                                  ![p].loop = [n |-> num, result |-> <<>>]]
    /\ UNCHANGED <<defaultBase62, call, prev>>

\* IntToBaseStep building result in the array of the alphabet:
\* result = append(defaultBase62[:0], ...)
IntToBaseStepWritesAlphabet ==
    \E p \in Procs :
        /\ running[p].pc = "intToBase"
        /\ IF intToBaseCond(running[p].loop)
           THEN /\ running' = [running EXCEPT ![p].loop = intToBaseBody(@)]
                /\ defaultBase62' = CharOf(intToBaseBody(running[p].loop).result[1])
                                        \o SubSeq(defaultBase62, 2, Len(defaultBase62))
           ELSE /\ Done(p, running[p].loop.result, NoError)
                /\ UNCHANGED defaultBase62
        /\ UNCHANGED <<call, prev>>

\* one iteration of the loop of intToBase, or its exit and the return
IntToBaseStep ==
    /\ \E p \in Procs :
           /\ running[p].pc = "intToBase"
           /\ IF intToBaseCond(running[p].loop)
              THEN running' = [running EXCEPT ![p].loop = intToBaseBody(@)]
              ELSE Done(p, running[p].loop.result, NoError)
    /\ UNCHANGED <<defaultBase62, call, prev>>

\* Expand(shortID): decode, baseToInt up to its loop
BeginExpand ==
    /\ \E p \in Procs, shortID \in ConcShortIDs :
           /\ running[p].pc = "idle"
           /\ Enter(p, "Expand", shortID, "baseToInt", shortID,
                    [encoded |-> shortID, k |-> 1, result |-> NewInt(0), err |-> NoError])
    /\ UNCHANGED <<defaultBase62, call, prev>>

\* ExpandUUID(shortID): Expand(shortID) up to the loop of baseToInt
BeginExpandUUID ==
    /\ \E p \in Procs, shortID \in ConcShortIDs :
           /\ running[p].pc = "idle"
           /\ Enter(p, "ExpandUUID", shortID, "baseToInt", shortID,
                    [encoded |-> shortID, k |-> 1, result |-> NewInt(0), err |-> NoError])
    /\ UNCHANGED <<defaultBase62, call, prev>>

\* one iteration of the loop of baseToInt, or its exit: the error returned as
\* it is, or num.Bytes() returned by Expand and handed to uuid.Parse by ExpandUUID
BaseToIntStep ==
    /\ \E p \in Procs :
           /\ running[p].pc = "baseToInt"
           /\ LET st == running[p].loop
              IN  IF baseToIntCond(st)
                  THEN running' = [running EXCEPT ![p].loop = baseToIntBody(@)]
                  ELSE IF st.err # NoError
                  THEN Done(p, IF running[p].op = "ExpandUUID" THEN NilUUID ELSE <<>>, st.err)
                  ELSE IF running[p].op = "Expand"
                  THEN Done(p, Bytes(st.result), NoError)
                  ELSE running' = [running EXCEPT ![p].pc = "Parse",
                                                  ![p].input = Bytes(st.result)]
    /\ UNCHANGED <<defaultBase62, call, prev>>

\* ExpandUUID from uuid.Parse on
ParseStep ==
    /\ \E p \in Procs :
           /\ running[p].pc = "Parse"
           /\ LET parsed == uuidParse(running[p].input)
              IN  IF ~parsed.ok
                  THEN Done(p, NilUUID,
                            DecodeError(running[p].arg,
                                Concat(Sprintf("failed to parse expanded UUID: ", <<>>),
                                       parsed.err)))
                  ELSE Done(p, parsed.val, NoError)
    /\ UNCHANGED <<defaultBase62, call, prev>>

\* the caller of goroutine p takes the results
Join ==
    /\ \E p \in Procs :
           /\ running[p].pc = "done"
           /\ running' = [running EXCEPT ![p] = Idle]
    /\ UNCHANGED <<defaultBase62, call, prev>>

ConcurrentNext ==
    \/ BeginShorten
    \/ BeginShortenUUID
    \/ EncodeStep
    \/ IntToBaseStep
    \/ BeginExpand
    \/ BeginExpandUUID
    \/ BaseToIntStep
    \/ ParseStep
    \/ Join

ConcurrentSpec == Init /\ [][ConcurrentNext]_vars

----------------------------------------------------------------------------
(* What the claims speak of.                                               *)

\* the 62 symbols of the alphabet
AlphabetSymbols == {Str(Base62Alphabet)[i] : i \in 1..Len(Base62Alphabet)}

\* s is made of alphabet symbols only
AllAlphabet(s) == \A k \in 1..Len(s) : s[k] \in AlphabetSymbols

\* the leftmost character of s outside the alphabet (s has one)
FirstInvalid(s) ==
    s[CHOOSE k \in 1..Len(s) :
          /\ s[k] \notin AlphabetSymbols
          /\ \A j \in 1..(k - 1) : s[j] \in AlphabetSymbols]

\* c is a lower-case hex digit
IsLowerHex(c) == (c >= 48 /\ c <= 57) \/ (c >= 97 /\ c <= 102)

\* c is a hex digit of either case
IsHex(c) == IsLowerHex(c) \/ (c >= 65 /\ c <= 70)

\* t is a canonical UUID string: 36 characters, lower-case hex, hyphenated 8-4-4-4-12
IsCanonicalUUIDString(t) ==
    /\ Len(t) = 36
    /\ \A i \in 1..36 : IF i \in {9, 14, 19, 24} THEN t[i] = 45 ELSE IsLowerHex(t[i])

\* s without its hyphens
WithoutHyphens(s) ==
    LET kept == {i \in 1..Len(s) : s[i] # 45}
    IN  [j \in 1..Cardinality(kept) |->
            s[CHOOSE i \in kept : Cardinality({h \in kept : h <= i}) = j]]

\* the 16 bytes whose value is that of the at most 16 bytes b
PadTo16(b) == [i \in 1..16 |-> IF i <= 16 - Len(b) THEN 0 ELSE b[i - (16 - Len(b))]]

\* the index of the alphabet symbol c: '0'..'9' are 0..9, 'A'..'Z' are 10..35,
\* 'a'..'z' are 36..61
DigitIndex(c) ==
    IF c >= 48 /\ c <= 57 THEN c - 48
    ELSE IF c >= 65 /\ c <= 90 THEN c - 55
    ELSE c - 61

RECURSIVE PositionalValue(_, _)
\* the integer the digits d spell in the base b, most significant first
\* (for values below 2^31)
PositionalValue(d, b) ==
    IF d = <<>> THEN 0
    ELSE b * PositionalValue(SubSeq(d, 1, Len(d) - 1), b) + d[Len(d)]

\* the integer of the short ID s of alphabet symbols
ShortIDValue(s) == PositionalValue([i \in 1..Len(s) |-> DigitIndex(s[i])], 62)

\* the integer of the bytes s, big-endian
ByteStringValue(s) == PositionalValue(s, 256)

\* the string given to encode by the call of op on arg
EncodedText(op, arg) == IF op = "ShortenUUID" THEN UUIDString(arg) ELSE arg

\* s without its leading elements equal to z
StripLeading(s, z) ==
    IF \A i \in 1..Len(s) : s[i] = z THEN <<>>
    ELSE SubSeq(s, CHOOSE i \in 1..Len(s) : s[i] # z /\ \A j \in 1..(i - 1) : s[j] = z,
                Len(s))

----------------------------------------------------------------------------
(* The claims.                                                             *)

\* C1: UUID round trip.  ShortenUUID returns no error on any UUID, and
\* ExpandUUID of the short ID it returned returns no error and the same 16 bytes.
C1_UUIDRoundTrip ==
    /\ call.op = "ShortenUUID" => call.err = NoError
    /\ call.op = "ExpandUUID" /\ prev.op = "ShortenUUID" =>
           /\ call.arg = prev.ret
           /\ call.err = NoError
           /\ call.ret = prev.arg

\* a version-4 UUID went through ShortenUUID and ExpandUUID and came back
C1_Witness ==
    /\ call.op = "ExpandUUID"
    /\ prev.op = "ShortenUUID"
    /\ UUIDString(prev.arg) = Str("4890586e-32a5-4f9c-a000-2a2bb68eb1ce")
    /\ call.ret = prev.arg

C3_CompatibilityVectors ==
    /\ call.op = "Shorten" /\ IsCanonicalUUIDString(call.arg) =>
           /\ call.err = NoError
           /\ call.ret = intToBase(SetBytes(uuidParse(call.arg).val))
    /\ call.op = "Shorten" /\ call.arg = Str("4890586e-32a5-4f9c-a000-2a2bb68eb1ce") =>
           call.ret = Str("2CvPdpytrcURpSLoPxYb30")
    /\ call.op = "Shorten" /\ call.arg = Str("53a8d1b9-4eca-4888-9b59-8fa91497857b") =>
           call.ret = Str("2XrVqpuNYMfp5OSuawGnL1")
    /\ call.op = "Expand" /\ prev.op = "Shorten" /\ IsCanonicalUUIDString(prev.arg) =>
           call.err = NoError /\ call.ret = prev.arg

\* C4: Shorten rejects what is not a UUID.  On a string that without its hyphens
\* has not 32 characters, or has a character that is no hex digit, Shorten returns
\* an EncodeError with the argument and the reason of TestError.
C4_ShortenRejectsNonUUID ==
    call.op = "Shorten" =>
        LET hex == WithoutHyphens(call.arg)
        IN  /\ Len(hex) # 32 =>
                   /\ call.err.kind = "EncodeError"
                   /\ call.err.input = call.arg
                   /\ call.err.Reason =
                          Sprintf("invalid UUID format: expected 32 hex characters after removing hyphens, got %d",
                                  <<Decimal(Len(hex))>>)
            /\ Len(hex) = 32 /\ (\E i \in 1..32 : ~IsHex(hex[i])) =>
                   /\ call.err.kind = "EncodeError"
                   /\ call.err.input = call.arg
                   /\ call.err.Reason =
                          Sprintf("invalid UUID format: contains non-hex characters (valid characters: 0-9, a-f, A-F, hyphens)",
                                  <<>>)

\* C5: empty input.  Shorten("") returns an EncodeError with the empty input and
\* a reason, and the empty string; Expand("") returns no error and the empty
\* string.
C5_EmptyInput ==
    /\ call.op = "Shorten" /\ call.arg = <<>> =>
           /\ call.err.kind = "EncodeError"
           /\ call.err.input = <<>>
           /\ Render(call.err.Reason) # <<>>
           /\ call.ret = <<>>
    /\ call.op = "Expand" /\ call.arg = <<>> =>
           call.err = NoError /\ call.ret = <<>>

\* Expand("") returned the empty string, and Shorten of it the EncodeError
C5_Witness ==
    /\ prev.op = "Expand" /\ prev.arg = <<>> /\ prev.err = NoError /\ prev.ret = <<>>
    /\ call.op = "Shorten" /\ call.arg = <<>> /\ call.err.kind = "EncodeError"

\* C6: invalid symbols.  On a short ID with a character outside the alphabet
\* Expand and ExpandUUID return a DecodeError whose ShortID is the whole input
\* and whose Reason names the leftmost such character; on a short ID of
\* alphabet symbols only, Expand returns no error.
C6_InvalidSymbolRejected ==
    call.op \in {"Expand", "ExpandUUID"} =>
        IF AllAlphabet(call.arg)
        THEN call.op = "Expand" => call.err = NoError
        ELSE /\ call.err.kind = "DecodeError"
             /\ call.err.input = call.arg
             /\ call.err.Reason.args = <<(<<FirstInvalid(call.arg)>>)>>
             /\ call.ret = (IF call.op = "Expand" THEN <<>> ELSE NilUUID)

\* ExpandUUID("@#$%") returned the DecodeError that names '@'
C6_Witness ==
    /\ call.op = "ExpandUUID"
    /\ call.arg = Str("@#$%")
    /\ call.err.kind = "DecodeError"
    /\ call.err.Reason.args = <<Str("@")>>

\* C7: the text of the decode error.  When Expand fails on a short ID whose
\* first invalid character is c, the Reason is
\* "invalid character 'c' in short ID (valid characters: 0-9, A-Z, a-z)" and
\* Error() is "decode error for short ID '<the short ID>': " and that Reason.
C7_DecodeErrorText ==
    call.op = "Expand" /\ call.err # NoError =>
        LET reason == Render(Sprintf("invalid character '%c' in short ID (valid characters: 0-9, A-Z, a-z)",
                                     <<(<<FirstInvalid(call.arg)>>)>>))
        IN  /\ Render(call.err.Reason) = reason
            /\ Render(ErrorString(call.err)) =
                   Str("decode error for short ID '") \o call.arg \o Str("': ") \o reason

\* C8: the hex-integer convention.  ShortenUUID(u) is the base-62 rendering of
\* the 128-bit integer of u's 16 bytes, of at most 22 symbols, and not that of
\* the bytes of the 36-character text.
C8_HexIntegerConvention ==
    call.op = "ShortenUUID" =>
        /\ call.err = NoError
        /\ call.ret = intToBase(SetBytes(call.arg))
        /\ Len(call.ret) <= 22

\* C9: the zero symbol.  ExpandUUID("0") returns no error and the all-zero UUID,
\* and a short ID whose integer has at most 32 hex digits expands to the UUID
\* of that integer, zeros to its left.
C9_ZeroSymbolAndPadding ==
    /\ call.op = "ExpandUUID" /\ call.arg = Str("0") =>
           call.err = NoError /\ call.ret = NilUUID
    /\ call.op = "ExpandUUID" /\ AllAlphabet(call.arg)
           /\ Len(Bytes(baseToInt(call.arg).val)) <= 16 =>
           /\ call.err = NoError
           /\ call.ret = PadTo16(Bytes(baseToInt(call.arg).val))

\* C10: the length validation of ExpandUUID.  On a short ID of alphabet symbols
\* whose integer is 2^128 or more, ExpandUUID returns a DecodeError with that
\* short ID and no UUID.
C10_TooLargeRejected ==
    call.op = "ExpandUUID" /\ AllAlphabet(call.arg)
        /\ Len(Bytes(baseToInt(call.arg).val)) > 16 =>
        /\ call.err.kind = "DecodeError"
        /\ call.err.input = call.arg
        /\ call.ret = NilUUID

\* C11: no partial results.  Whenever one of the four functions returns an
\* error, the value it returns with it is the zero value (the empty string, the
\* all-zero UUID for ExpandUUID), the error is an EncodeError for Shorten and
\* ShortenUUID and a DecodeError for Expand and ExpandUUID, and the error's
\* input field is the argument of that call, also when ExpandUUID fails at
\* uuid.Parse.
C11_NoPartialResults ==
    call.op # "none" /\ call.err # NoError =>
        /\ call.ret = (IF call.op = "ExpandUUID" THEN NilUUID ELSE <<>>)
        /\ call.err.kind =
               (IF call.op \in {"Shorten", "ShortenUUID"} THEN "EncodeError" ELSE "DecodeError")
        /\ call.err.input = call.arg

\* ExpandUUID("1z") expanded to a string of one byte, failed at uuid.Parse and
\* returned the all-zero UUID and a DecodeError with the ShortID "1z"
C11_Witness ==
    /\ call.op = "ExpandUUID"
    /\ call.arg = Str("1z")
    /\ Expand(call.arg).err = NoError
    /\ Expand(call.arg).val # call.arg
    /\ call.err.Reason.fmt = "failed to parse expanded UUID: invalid UUID length: %d"
    /\ call.err.input = call.arg
    /\ call.ret = NilUUID

\* what op returns on arg when it runs alone
Alone(op, arg) ==
    IF op = "Shorten" THEN Shorten(arg)
    ELSE IF op = "ShortenUUID" THEN ShortenUUID(arg)
    ELSE IF op = "Expand" THEN Expand(arg)
    ELSE ExpandUUID(arg)

\* every call that returned, returned what it returns alone; the alphabet is as
\* the source wrote it
C12_ResultsAsAlone ==
    /\ defaultBase62 = Base62Alphabet
    /\ \A p \in Procs :
           running[p].pc = "done" =>
               [val |-> running[p].ret, err |-> running[p].err]
                   = Alone(running[p].op, running[p].arg)

\* a step of one call leaves alone the alphabet, the argument of the call and
\* everything of the calls of the other goroutines
C12_StepIsLocal ==
    /\ defaultBase62' = defaultBase62
    /\ \E p \in Procs :
           /\ \A q \in Procs \ {p} : running'[q] = running[q]
           /\ running[p].pc \notin {"idle", "done"} =>
                  running'[p].op = running[p].op /\ running'[p].arg = running[p].arg

\* C12: reentrancy.  No step of a call of Shorten, Expand, ShortenUUID or
\* ExpandUUID modifies defaultBase62, the argument of the call or anything of
\* another call, and under every interleaving of the concurrent calls each
\* call returns what it returns when it runs alone on its argument.
C12_Reentrancy == [][C12_StepIsLocal]_vars /\ []C12_ResultsAsAlone

\* ShortenUUID returned in one goroutine while Expand is inside the loop of
\* baseToInt in another, some symbols read and some to come
C12_Witness ==
    \E p \in Procs, q \in Procs :
        /\ p # q
        /\ running[p].pc = "done"
        /\ running[p].op = "ShortenUUID"
        /\ Len(running[p].ret) = 48
        /\ running[q].pc = "baseToInt"
        /\ running[q].loop.k > 1
        /\ running[q].loop.k <= Len(running[q].arg)

\* C13: the canonical form of a short ID.  The short ID that Shorten or
\* ShortenUUID returns with no error is intToBase of the integer n of the bytes
\* of the text: it is not empty, made of alphabet symbols only, its first symbol
\* is not '0' unless it is exactly "0", it is "0" exactly when n is zero, and
\* its digits spell n most significant first.
C13_CanonicalShortID ==
    call.op \in {"Shorten", "ShortenUUID"} /\ call.err = NoError =>
        LET text == EncodedText(call.op, call.arg)
            zero == \A i \in 1..Len(text) : text[i] = 0
        IN  /\ call.ret # <<>>
            /\ AllAlphabet(call.ret)
            /\ call.ret[1] = 48 => call.ret = Str("0")
            /\ zero <=> call.ret = Str("0")
            /\ Len(text) <= 3 => ShortIDValue(call.ret) = ByteStringValue(text)

\* Shorten of two zero bytes, the integer zero, returned "0"
C13_Witness ==
    /\ call.op = "Shorten"
    /\ call.arg = <<0, 0>>
    /\ call.err = NoError
    /\ call.ret = Str("0")

\* C14: positional decoding.  Each of the 62 symbols has one index in the
\* alphabet ('0'..'9' 0..9, 'A'..'Z' 10..35, 'a'..'z' 36..61), and on a string
\* of alphabet symbols baseToInt returns no error and the integer its digits
\* spell in base 62, most significant first: Expand returns the bytes of that
\* integer, the empty string for the empty short ID, and the same bytes as for
\* the short ID without its leading '0' symbols.
C14_PositionalDecoding ==
    /\ \A c \in AlphabetSymbols : alphabetIndex(c) = DigitIndex(c)
    /\ call.op = "Expand" /\ AllAlphabet(call.arg) =>
           /\ call.err = NoError
           /\ call.arg = <<>> => call.ret = <<>>
           /\ call.ret = <<>> \/ call.ret[1] # 0
           /\ Len(call.arg) <= 5 => ByteStringValue(call.ret) = ShortIDValue(call.arg)
           /\ call.ret = Expand(StripLeading(call.arg, 48)).val

\* Expand("Az") returned the two bytes of 10 * 62 + 61 = 681
C14_Witness ==
    /\ call.op = "Expand"
    /\ call.arg = Str("Az")
    /\ call.err = NoError
    /\ call.ret = <<2, 169>>

C16_ShortIDRoundTrip ==
    /\ call.op = "Expand" /\ AllAlphabet(call.arg) /\ call.arg # <<>> =>
           /\ call.err = NoError
           /\ IF call.arg[1] # 48
              THEN call.ret # <<>>
              ELSE call.ret = Expand(StripLeading(call.arg, 48)).val
    /\ call.op = "Shorten" /\ prev.op = "Expand" /\ prev.arg # <<>> =>
           /\ call.arg = prev.ret
           /\ IF prev.arg[1] # 48
              THEN call.err = NoError /\ call.ret = prev.arg
              ELSE call.ret # prev.arg

\* the 22 symbols 2CvPdpytrcURpSLoPxYb30 were expanded to a string and
\* Shorten of the string returned them
C16_Witness ==
    /\ call.op = "Shorten"
    /\ prev.op = "Expand"
    /\ prev.arg = Str("2CvPdpytrcURpSLoPxYb30")
    /\ call.arg # <<>>
    /\ call.ret = prev.arg

\* C17: ExpandUUID accepts only what ShortenUUID returns.  When ExpandUUID
\* returns a UUID u and no error on a short ID s whose first symbol is not '0',
\* ShortenUUID(u) returns s.
C17_ExpandUUIDOnlyOfShortenUUID ==
    call.op = "ShortenUUID" /\ prev.op = "ExpandUUID" /\ prev.err = NoError
        /\ prev.arg # <<>> /\ prev.arg[1] # 48 =>
        /\ call.arg = prev.ret
        /\ call.err = NoError
        /\ call.ret = prev.arg

====
